---- MODULE Spec2Model ----
(***************************************************************************)
(* Model of the date-fns format-token interpreter: the run-length unit     *)
(* formatter table of src/format/_lib/formatters/index.js (the last        *)
(* `var formatters = {...}` of the file, lines 463-881), its helper        *)
(* addLeadingZeros, and the format driver that calls the table.            *)
(*                                                                         *)
(* A JavaScript string is a sequence of one-character strings, so that     *)
(* length, substr and concatenation are computed as the code computes them.*)
(* The value returned by a call is a record: status "ok" with the text     *)
(* produced, or the name of the exception the call throws.                 *)
(***************************************************************************)
EXTENDS Integers, Sequences, FiniteSets

VARIABLES date, formatterOptions, called, token, args, result

vars == <<date, formatterOptions, called, token, args, result>>

(***************************************************************************)
(* Bounds of the model.                                                    *)
(***************************************************************************)
\* longest run of one pattern letter that is tried
MaxLen == 6
\* the years -YearSpan .. YearSpan are all tried, next to SampleYears
YearSpan == 11
\* addLeadingZeros is tried on the numbers -MaxPadNumber .. MaxPadNumber
MaxPadNumber == 1050
\* and on the target lengths up to MaxTarget
MaxTarget == 7
\* formatTimezone is tried on the offsets -MaxOffset .. MaxOffset, in minutes
MaxOffset == 900
\* the scanner is followed token by token on the patterns up to this length
MaxPattern == 5

(***************************************************************************)
(* JavaScript primitives used by the formatters.                           *)
(***************************************************************************)
Digits == <<"0", "1", "2", "3", "4", "5", "6", "7", "8", "9">>

\* Math.abs
Abs(n) == IF n < 0 THEN -n ELSE n

\* Number.prototype.toString of a non-negative integer
RECURSIVE toString(_)
toString(n) ==
  IF n < 10 THEN <<Digits[n + 1]>>
  ELSE toString(n \div 10) \o <<Digits[(n % 10) + 1]>>

\* String.prototype.substr(start) with one argument
substr(s, start) == SubSeq(s, start + 1, Len(s))

\* The value of a property that does not exist (`numberOfDigits.length`,
\* with numberOfDigits a number).  It only ever reaches the comparison
\* `output.length < targetLength`, see JSLessThan.
undefined == -1

\* a < b of JavaScript for a number a and b a number or undefined:
\* undefined converts to NaN and every comparison with NaN is false
JSLessThan(a, b) == b # undefined /\ a < b

\* pattern of n letters c
RECURSIVE Repeat(_, _)
Repeat(c, n) == IF n <= 0 THEN <<>> ELSE <<c>> \o Repeat(c, n - 1)

(***************************************************************************)
(* addLeadingZeros and the values a formatter returns.                     *)
(***************************************************************************)
RECURSIVE PadLoop(_, _)
PadLoop(output, targetLength) ==
  IF JSLessThan(Len(output), targetLength)
  THEN PadLoop(<<"0">> \o output, targetLength)
  ELSE output

\* addLeadingZeros keeping the last targetLength characters, as
\* ('0000' + number).slice(-targetLength) does
addLeadingZeros_truncating(number, targetLength) ==
  LET output == PadLoop(toString(Abs(number)), targetLength)
  IN  IF targetLength >= 1 /\ Len(output) > targetLength
      THEN SubSeq(output, Len(output) - targetLength + 1, Len(output))
      ELSE output

addLeadingZeros(number, targetLength) ==
  PadLoop(toString(Abs(number)), targetLength)

NoCalls == <<>>

\* a call that returns: the text returned and the localizer calls it made
Returned(text, calls) == [status |-> "ok", text |-> text, calls |-> calls]

\* a call that throws
Thrown(error) == [status |-> error, text |-> <<>>, calls |-> NoCalls]

(***************************************************************************)
(* The Date object: its UTC calendar fields.  Months are 0-based.          *)
(***************************************************************************)
isLeapYear(year) == year % 4 = 0 /\ (year % 100 # 0 \/ year % 400 = 0)

daysInMonth(year, month) ==
  IF month = 1 THEN (IF isLeapYear(year) THEN 29 ELSE 28)
  ELSE IF month \in {3, 5, 8, 10} THEN 30 ELSE 31

\* days from 1970-01-01 to the civil date (proleptic Gregorian calendar,
\* astronomical year numbering), the day part of Date's time value
daysFromCivil(year, month, day) ==
  LET y   == IF month <= 1 THEN year - 1 ELSE year
      era == y \div 400
      yoe == y - era * 400
      mp  == IF month > 1 THEN month - 2 ELSE month + 10
      doy == (153 * mp + 2) \div 5 + day - 1
      doe == yoe * 365 + yoe \div 4 - yoe \div 100 + doy
  IN  era * 146097 + doe - 719468

\* Date.prototype.getUTCDay: 0 is Sunday (1970-01-01 was a Thursday)
getUTCDay(d) == (daysFromCivil(d.year, d.month, d.day) + 4) % 7

\* whether the time value of the date is a number and not NaN
isValid(d) == d.valid

\* Date.prototype.getTime: milliseconds from 1970-01-01T00:00:00.000Z
getTime(d) ==
  (((daysFromCivil(d.year, d.month, d.day) * 24 + d.hours) * 60 + d.minutes) * 60
     + d.seconds) * 1000 + d.milliseconds

\* Date.prototype.getTimezoneOffset: minutes from the local time to UTC,
\* positive when the local time is behind UTC
getTimezoneOffset(d) == d.timezoneOffset

\* _lib/getUTCDayOfYear: 1-based ordinal day within the civil year
getUTCDayOfYear(d) ==
  daysFromCivil(d.year, d.month, d.day) - daysFromCivil(d.year, 0, 1) + 1

\* day number of the Monday that starts the ISO week of a day number
startOfUTCISOWeek(dayNumber) == dayNumber - ((dayNumber + 3) % 7)

\* _lib/getUTCISOWeekYear: the ISO-8601 week-numbering year (weeks start on
\* Monday, week 1 is the week that contains January 4)
getUTCISOWeekYear(d) ==
  LET today           == daysFromCivil(d.year, d.month, d.day)
      startOfNextYear == startOfUTCISOWeek(daysFromCivil(d.year + 1, 0, 4))
      startOfThisYear == startOfUTCISOWeek(daysFromCivil(d.year, 0, 4))
  IN  IF today >= startOfNextYear THEN d.year + 1
      ELSE IF today >= startOfThisYear THEN d.year
      ELSE d.year - 1

\* _lib/getUTCISOWeek: the ISO-8601 week of the week-numbering year, the
\* number of weeks from the start of that year's week 1, plus one
getUTCISOWeek(d) ==
  LET today       == daysFromCivil(d.year, d.month, d.day)
      startOfYear == startOfUTCISOWeek(daysFromCivil(getUTCISOWeekYear(d), 0, 4))
  IN  (startOfUTCISOWeek(today) - startOfYear) \div 7 + 1

(***************************************************************************)
(* Names.  A formatter can read its parameters, its `var`s and the names   *)
(* of the module: the imports, the table and the two helper functions.     *)
(* Reading any other name throws a ReferenceError.                         *)
(***************************************************************************)
ModuleNames ==
  {"getUTCDayOfYear", "getUTCISOWeek", "getUTCISOWeekYear", "formatters",
   "formatTimezone", "addLeadingZeros"}

declared(names, name) == name \in names \cup ModuleNames

(***************************************************************************)
(* The localizer (locale data, en-US).  A call is recorded with the        *)
(* capability called, the value passed and the width and context asked for.*)
(***************************************************************************)
LocalizeCall(fn, value, width, context) ==
  [fn |-> fn, value |-> value, width |-> width, context |-> context]

\* localize.era(era, {width})
localize_era(era, width) ==
  IF width = "abbreviated"
  THEN (IF era = 1 THEN <<"A", "D">> ELSE <<"B", "C">>)
  ELSE IF width = "narrow"
  THEN (IF era = 1 THEN <<"A">> ELSE <<"B">>)
  ELSE (IF era = 1
        THEN <<"A", "n", "n", "o", " ", "D", "o", "m", "i", "n", "i">>
        ELSE <<"B", "e", "f", "o", "r", "e", " ", "C", "h", "r", "i", "s", "t">>)

\* localize.timeOfDay(hours, {width})
localize_timeOfDay(hours, width) ==
  IF hours \div 12 >= 1 THEN <<"P", "M">> ELSE <<"A", "M">>

\* localize[fn](value, {width, context}): the text of the locale.  The names
\* of quarters, months and weekdays are kept symbolic: the capability, the
\* width, the context and the value asked for.
localize(fn, value, width, context) ==
  CASE fn = "era" -> localize_era(value, width)
    [] fn = "timeOfDay" -> localize_timeOfDay(value, width)
    [] OTHER -> <<fn, width, context>> \o toString(Abs(value))

\* The call localize[fn](<argument>, {width, context}) inside a formatter
\* whose local variables are `locals` (a record, name |-> value).  The
\* argument is a name: reading a name that is declared neither in the
\* function nor in the module throws a ReferenceError before the call.
callLocalize(locals, fn, argument, width, context) ==
  IF argument \notin DOMAIN locals
  THEN Thrown("ReferenceError")
  ELSE Returned(localize(fn, locals[argument], width, context),
                <<LocalizeCall(fn, locals[argument], width, context)>>)

(***************************************************************************)
(* The unit formatter table.  Each entry is formatters.<letter>(pattern,   *)
(* date, localize, options); `pattern` is the run of the letter.           *)
(***************************************************************************)

\* formatters.G with the test `>= 0`: the year 0 counted as AD
formatters_G_yearZeroAD(pattern, d) ==
  LET era   == IF d.year >= 0 THEN 1 ELSE -1
      width == CASE Len(pattern) \in {1, 2, 3} -> "abbreviated"
                 [] Len(pattern) = 5 -> "narrow"
                 [] OTHER -> "wide"
  IN  Returned(localize_era(era, width),
               <<LocalizeCall("era", era, width, "none")>>)

\* Era
formatters_G(pattern, d) ==
  LET era   == IF d.year > 0 THEN 1 ELSE -1
      width == CASE Len(pattern) \in {1, 2, 3} -> "abbreviated"
                 [] Len(pattern) = 5 -> "narrow"
                 [] OTHER -> "wide"
  IN  Returned(localize_era(era, width),
               <<LocalizeCall("era", era, width, "none")>>)

\* formatters.y taking the absolute value of the year, as formatters.Y does
formatters_y_abs(pattern, d) ==
  LET year == Abs(d.year)
  IN  IF Len(pattern) = 2
      THEN Returned(substr(addLeadingZeros(year, 4), 2), NoCalls)
      ELSE Returned(addLeadingZeros(year, Len(pattern)), NoCalls)

\* Year
formatters_y(pattern, d) ==
  LET signedYear == d.year
      year       == IF signedYear > 0 THEN signedYear ELSE 1 - signedYear
  IN  IF Len(pattern) = 2
      THEN Returned(substr(addLeadingZeros(year, 4), 2), NoCalls)
      ELSE Returned(addLeadingZeros(year, Len(pattern)), NoCalls)

\* formatters.Y reading the calendar year, as formatters.u does
formatters_Y_calendarYear(pattern, d) ==
  LET isoWeekYear == d.year
  IN  IF Len(pattern) = 2
      THEN Returned(substr(addLeadingZeros(isoWeekYear, 4), 2), NoCalls)
      ELSE Returned(addLeadingZeros(isoWeekYear, Len(pattern)), NoCalls)

\* ISO week-numbering year
formatters_Y(pattern, d) ==
  LET isoWeekYear == getUTCISOWeekYear(d)
  IN  IF Len(pattern) = 2
      THEN Returned(substr(addLeadingZeros(isoWeekYear, 4), 2), NoCalls)
      ELSE Returned(addLeadingZeros(isoWeekYear, Len(pattern)), NoCalls)

\* formatters.u without the sign
formatters_u_unsigned(pattern, d) ==
  Returned(addLeadingZeros(Abs(d.year), Len(pattern)), NoCalls)

\* formatters.u with the two-digit truncation of formatters.y
formatters_u_truncating(pattern, d) ==
  LET year == d.year
      sign == IF year >= 0 THEN <<>> ELSE <<"-">>
  IN  IF Len(pattern) = 2
      THEN Returned(sign \o substr(addLeadingZeros(Abs(year), 4), 2), NoCalls)
      ELSE Returned(sign \o addLeadingZeros(Abs(year), Len(pattern)), NoCalls)

\* Extended year
formatters_u(pattern, d) ==
  LET year == d.year
      sign == IF year >= 0 THEN <<>> ELSE <<"-">>
  IN  Returned(sign \o addLeadingZeros(Abs(year), Len(pattern)), NoCalls)

\* Math.ceil((date.getUTCMonth() + 1) / 3)
quarterOf(d) == (d.month + 1 + 2) \div 3

\* formatters.Q with the `return` of case 2 missing, as in the string-keyed
\* revision of the table (lines 127-131): the case falls through to case 3
formatters_Q_fallthrough(pattern, d) ==
  LET quarter == quarterOf(d)
  IN  CASE Len(pattern) = 1 -> Returned(toString(quarter), NoCalls)
        [] OTHER -> Thrown("ReferenceError")

\* Quarter.  The run lengths 3 and more evaluate the argument `era` of
\* localize.quarter(era, ...), a name that is declared nowhere in the
\* function or the module: a ReferenceError, thrown before the call is made.
formatters_Q(pattern, d) ==
  LET quarter == quarterOf(d)
      locals  == [quarter |-> quarter]
  IN  CASE Len(pattern) = 1 -> Returned(toString(quarter), NoCalls)
        [] Len(pattern) = 2 -> Returned(addLeadingZeros(quarter, 2), NoCalls)
        [] Len(pattern) = 3 ->
             callLocalize(locals, "quarter", "era", "abbreviated", "formatting")
        [] OTHER -> callLocalize(locals, "quarter", "era", "wide", "formatting")

\* Stand-alone quarter
formatters_q(pattern, d) ==
  LET quarter == quarterOf(d)
      locals  == [quarter |-> quarter]
  IN  CASE Len(pattern) = 1 -> Returned(toString(quarter), NoCalls)
        [] Len(pattern) = 2 -> Returned(addLeadingZeros(quarter, 2), NoCalls)
        [] Len(pattern) = 3 ->
             callLocalize(locals, "quarter", "era", "abbreviated", "standalone")
        [] OTHER -> callLocalize(locals, "quarter", "era", "wide", "standalone")

\* formatters.d passing an undefined target length, as formatters.S does
formatters_d_unpadded(pattern, d) ==
  Returned(addLeadingZeros(d.day, undefined), NoCalls)

\* Month.  The run lengths 3 and more evaluate the undeclared `era`, as
\* formatters.Q does.
formatters_M(pattern, d) ==
  LET month  == d.month
      locals == [month |-> month]
  IN  CASE Len(pattern) = 1 -> Returned(toString(month + 1), NoCalls)
        [] Len(pattern) = 2 -> Returned(addLeadingZeros(month + 1, 2), NoCalls)
        [] Len(pattern) = 3 ->
             callLocalize(locals, "month", "era", "abbreviated", "formatting")
        [] Len(pattern) = 5 ->
             callLocalize(locals, "month", "era", "narrow", "formatting")
        [] OTHER -> callLocalize(locals, "month", "era", "wide", "formatting")

\* Stand-alone month
formatters_L(pattern, d) ==
  LET month  == d.month
      locals == [month |-> month]
  IN  CASE Len(pattern) = 1 -> Returned(toString(month + 1), NoCalls)
        [] Len(pattern) = 2 -> Returned(addLeadingZeros(month + 1, 2), NoCalls)
        [] Len(pattern) = 3 ->
             callLocalize(locals, "month", "era", "abbreviated", "standalone")
        [] Len(pattern) = 5 ->
             callLocalize(locals, "month", "era", "narrow", "standalone")
        [] OTHER -> callLocalize(locals, "month", "era", "wide", "standalone")

\* formatters.w counting the weeks from January 1 of the calendar year
formatters_w_fromJanuaryFirst(pattern, d) ==
  LET isoWeek == (getUTCDayOfYear(d) - 1) \div 7 + 1
  IN  Returned(addLeadingZeros(isoWeek, Len(pattern)), NoCalls)

\* ISO week of year
formatters_w(pattern, d) ==
  LET isoWeek == getUTCISOWeek(d)
  IN  Returned(addLeadingZeros(isoWeek, Len(pattern)), NoCalls)

\* Day of the month
formatters_d(pattern, d) ==
  LET dayOfMonth == d.day
  IN  Returned(addLeadingZeros(dayOfMonth, Len(pattern)), NoCalls)

\* formatters.D reading the day of the month, as the entry 'D' of the
\* string-keyed revision of the table did
formatters_D_dayOfMonth(pattern, d) ==
  Returned(addLeadingZeros(d.day, Len(pattern)), NoCalls)

\* Day of year
formatters_D(pattern, d) ==
  LET dayOfYear == getUTCDayOfYear(d)
  IN  Returned(addLeadingZeros(dayOfYear, Len(pattern)), NoCalls)

\* Day of week.  Every run length evaluates the undeclared `era`; the run
\* lengths 4, 5 and 6 name the month capability of the localizer.
formatters_E(pattern, d) ==
  LET dayOfWeek == getUTCDay(d)
      locals    == [dayOfWeek |-> dayOfWeek]
  IN  CASE Len(pattern) \in {1, 2, 3} ->
             callLocalize(locals, "weekday", "era", "abbreviated", "formatting")
        [] Len(pattern) = 5 ->
             callLocalize(locals, "month", "era", "narrow", "formatting")
        [] Len(pattern) = 6 ->
             callLocalize(locals, "month", "era", "short", "formatting")
        [] OTHER -> callLocalize(locals, "month", "era", "wide", "formatting")

\* Stand-alone local day of week.  The run lengths 1 and 2 return the
\* string 'TODO'.
formatters_c(pattern, d) ==
  LET dayOfWeek == getUTCDay(d)
      locals    == [dayOfWeek |-> dayOfWeek]
  IN  CASE Len(pattern) \in {1, 2} -> Returned(<<"T", "O", "D", "O">>, NoCalls)
        [] Len(pattern) = 3 ->
             callLocalize(locals, "weekday", "era", "abbreviated", "standalone")
        [] Len(pattern) = 5 ->
             callLocalize(locals, "month", "era", "narrow", "standalone")
        [] Len(pattern) = 6 ->
             callLocalize(locals, "month", "era", "short", "standalone")
        [] OTHER -> callLocalize(locals, "month", "era", "wide", "standalone")

\* AM or PM
formatters_a(pattern, d) ==
  LET hours  == d.hours
      locals == [hours |-> hours]
  IN  callLocalize(locals, "timeOfDay", "hours", "narrow", "none")

\* formatters.h without the wrap of 0 to 12, as formatters.K
formatters_h_nowrap(pattern, d) ==
  Returned(addLeadingZeros(d.hours % 12, Len(pattern)), NoCalls)

\* Hour [1-12]
formatters_h(pattern, d) ==
  LET hours0 == d.hours % 12
      hours  == IF hours0 = 0 THEN 12 ELSE hours0
  IN  Returned(addLeadingZeros(hours, Len(pattern)), NoCalls)

\* Hour [0-23]
formatters_H(pattern, d) ==
  LET hours == d.hours
  IN  Returned(addLeadingZeros(hours, Len(pattern)), NoCalls)

\* Hour [0-11]
formatters_K(pattern, d) ==
  LET hours == d.hours % 12
  IN  Returned(addLeadingZeros(hours, Len(pattern)), NoCalls)

\* Hour [1-24]
formatters_k(pattern, d) ==
  LET hours == IF d.hours = 0 THEN 24 ELSE d.hours
  IN  Returned(addLeadingZeros(hours, Len(pattern)), NoCalls)

\* Minute
formatters_m(pattern, d) ==
  LET minutes == d.minutes
  IN  Returned(addLeadingZeros(minutes, Len(pattern)), NoCalls)

\* Second
formatters_s(pattern, d) ==
  LET seconds == d.seconds
  IN  Returned(addLeadingZeros(seconds, Len(pattern)), NoCalls)

\* formatTimezone with '+' for a positive getTimezoneOffset()
formatTimezone_positiveIsPlus(offset, delimeter) ==
  LET sign      == IF offset > 0 THEN <<"+">> ELSE <<"-">>
      absOffset == Abs(offset)
      hours     == absOffset \div 60
      minutes   == absOffset % 60
  IN  sign \o addLeadingZeros(hours, 2) \o delimeter \o addLeadingZeros(minutes, 2)

\* formatTimezone(offset, delimeter); the delimeter is '' when not given
formatTimezone(offset, delimeter) ==
  LET sign      == IF offset > 0 THEN <<"-">> ELSE <<"+">>
      absOffset == Abs(offset)
      hours     == absOffset \div 60
      minutes   == absOffset % 60
  IN  sign \o addLeadingZeros(hours, 2) \o delimeter \o addLeadingZeros(minutes, 2)

\* The body shared by formatters.X and formatters.x after the offset is
\* read.  The run lengths 3, 5 and more read the undeclared `timezoneOffse`.
timezoneByRunLength(names, pattern, timezoneOffset) ==
  CASE Len(pattern) = 1 ->
         IF timezoneOffset % 60 = 0
         THEN Returned(addLeadingZeros(timezoneOffset \div 60, 2), NoCalls)
         ELSE Returned(formatTimezone(timezoneOffset, <<>>), NoCalls)
    [] Len(pattern) \in {2, 4} ->
         Returned(formatTimezone(timezoneOffset, <<>>), NoCalls)
    [] OTHER ->
         IF ~declared(names, "timezoneOffse") THEN Thrown("ReferenceError")
         ELSE Returned(formatTimezone(timezoneOffset, <<":">>), NoCalls)

\* Timezone (ISO-8601, 'Z' for the offset 0).  The function has the
\* parameters (pattern, date, localize): its first statement reads the
\* undeclared `options`, and its second the undeclared `originalData`.
formatters_X(pattern, d, options) ==
  LET names          == {"pattern", "date", "localize", "originalDate",
                         "timezoneOffset"}
      originalDate   == IF "_originalDate" \in DOMAIN options
                        THEN options._originalDate ELSE d
      timezoneOffset == getTimezoneOffset(originalDate)
  IN  IF ~declared(names, "options") THEN Thrown("ReferenceError")
      ELSE IF ~declared(names, "originalData") THEN Thrown("ReferenceError")
      ELSE IF timezoneOffset = 0 THEN Returned(<<"Z">>, NoCalls)
      ELSE timezoneByRunLength(names, pattern, timezoneOffset)

\* Timezone (ISO-8601, no 'Z'), with the statements of formatters.X
formatters_x(pattern, d, options) ==
  LET names          == {"pattern", "date", "localize", "originalDate",
                         "timezoneOffset"}
      originalDate   == IF "_originalDate" \in DOMAIN options
                        THEN options._originalDate ELSE d
      timezoneOffset == getTimezoneOffset(originalDate)
  IN  IF ~declared(names, "options") THEN Thrown("ReferenceError")
      ELSE IF ~declared(names, "originalData") THEN Thrown("ReferenceError")
      ELSE timezoneByRunLength(names, pattern, timezoneOffset)

\* Seconds timestamp.  The value computed is stored in `timestamp`; the
\* return statement reads `seconds`, which the function does not declare,
\* so the statement has one outcome.
formatters_t(pattern, d, options) ==
  LET names        == {"pattern", "date", "localize", "options", "originalDate",
                       "timestamp"}
      originalDate == IF "_originalDate" \in DOMAIN options
                      THEN options._originalDate ELSE d
      timestamp    == getTime(originalDate) \div 1000
  IN  CASE ~declared(names, "seconds") -> Thrown("ReferenceError")

\* Milliseconds timestamp.  The parameters are (pattern, date, options,
\* options): the fourth argument is the one bound to `options`.
formatters_T(pattern, d, options) ==
  LET names        == {"pattern", "date", "options", "originalDate", "timestamp"}
      originalDate == IF "_originalDate" \in DOMAIN options
                      THEN options._originalDate ELSE d
      timestamp    == getTime(originalDate)
  IN  CASE ~declared(names, "seconds") -> Thrown("ReferenceError")

\* 10 to the power e, e >= 0
RECURSIVE Pow10(_)
Pow10(e) == IF e <= 0 THEN 1 ELSE 10 * Pow10(e - 1)

\* Math.floor(milliseconds * Math.pow(10, numberOfDigits - 3)): for
\* milliseconds in 0..999 the double product floors to the integer quotient
FloorScaled(milliseconds, numberOfDigits) ==
  IF numberOfDigits >= 3
  THEN milliseconds * Pow10(numberOfDigits - 3)
  ELSE milliseconds \div Pow10(3 - numberOfDigits)

\* Fractional second.  The target length passed on is numberOfDigits.length,
\* the `length` property of a number: undefined.
formatters_S(pattern, d) ==
  LET numberOfDigits    == Len(pattern)
      milliseconds      == d.milliseconds
      fractionalSeconds == FloorScaled(milliseconds, numberOfDigits)
  IN  Returned(addLeadingZeros(fractionalSeconds, undefined), NoCalls)

\* The entries 'S', 'SS' and 'SSS' of the earlier table, which is keyed by
\* the whole token and whose functions take the date only.  'S' returns a
\* number, which is written in decimal when the outputs are joined.
legacyFormatters_S(d) == toString(d.milliseconds \div 100)

legacyFormatters_SS(d) == addLeadingZeros(d.milliseconds \div 10, 2)

legacyFormatters_SSS(d) == addLeadingZeros(d.milliseconds, 3)

legacyFormatters(key, d) ==
  CASE key = <<"S">> -> Returned(legacyFormatters_S(d), NoCalls)
    [] key = <<"S", "S">> -> Returned(legacyFormatters_SS(d), NoCalls)
    [] key = <<"S", "S", "S">> -> Returned(legacyFormatters_SSS(d), NoCalls)

(***************************************************************************)
(* The format driver: format(date, pattern).  It scans the pattern into    *)
(* runs of one letter and literal characters, calls the table entry of     *)
(* each run and joins the outputs; `o` after a run that rendered a number  *)
(* appends the ordinal suffix of that number.                              *)
(***************************************************************************)
TableLetters ==
  {"G", "y", "Y", "u", "Q", "q", "M", "L", "w", "d", "D", "E", "c", "a", "h",
   "H", "K", "k", "m", "s", "S", "X", "x", "t", "T"}

\* the letters that the table's header comment lists as implemented
\* (neither empty nor marked with *), `o` and `g` aside
DocumentedLetters ==
  {"G", "y", "Y", "u", "Q", "q", "M", "L", "w", "d", "D", "E", "e", "c", "a",
   "h", "H", "K", "k", "m", "s", "S", "X", "x", "t", "T"}

\* the date `amount` minutes later, for a time that stays within the day
addMinutes(d, amount) ==
  LET total == d.hours * 60 + d.minutes + amount
  IN  [d EXCEPT !.hours = total \div 60, !.minutes = total % 60]

\* the options that hold no original date
NoOriginalDate == [locale |-> "en-US"]

\* the options that format passes to the formatters.  The date it passes
\* shows the local time of the original date in its UTC fields: the
\* original date is getTimezoneOffset() minutes later.
optionsOf(d) ==
  [locale |-> "en-US", _originalDate |-> addMinutes(d, getTimezoneOffset(d))]

\* the letters a pattern is scanned for: the documented ones, the table's
\* and the modifier `o`
PatternLetters == DocumentedLetters \cup TableLetters \cup {"o"}

dispatch(letter, run, d) ==
  CASE letter = "G" -> formatters_G(run, d)
    [] letter = "y" -> formatters_y(run, d)
    [] letter = "Y" -> formatters_Y(run, d)
    [] letter = "u" -> formatters_u(run, d)
    [] letter = "Q" -> formatters_Q(run, d)
    [] letter = "q" -> formatters_q(run, d)
    [] letter = "M" -> formatters_M(run, d)
    [] letter = "L" -> formatters_L(run, d)
    [] letter = "w" -> formatters_w(run, d)
    [] letter = "d" -> formatters_d(run, d)
    [] letter = "D" -> formatters_D(run, d)
    [] letter = "E" -> formatters_E(run, d)
    [] letter = "c" -> formatters_c(run, d)
    [] letter = "a" -> formatters_a(run, d)
    [] letter = "h" -> formatters_h(run, d)
    [] letter = "H" -> formatters_H(run, d)
    [] letter = "K" -> formatters_K(run, d)
    [] letter = "k" -> formatters_k(run, d)
    [] letter = "m" -> formatters_m(run, d)
    [] letter = "s" -> formatters_s(run, d)
    [] letter = "S" -> formatters_S(run, d)
    [] letter = "X" -> formatters_X(run, d, optionsOf(d))
    [] letter = "x" -> formatters_x(run, d, optionsOf(d))
    [] letter = "t" -> formatters_t(run, d, optionsOf(d))
    [] letter = "T" -> formatters_T(run, d, optionsOf(d))
    [] OTHER -> Thrown("UnknownDirective")

\* length of the run of the character p[i] that starts at i
RECURSIVE runLength(_, _)
runLength(p, i) ==
  IF i < Len(p) /\ p[i + 1] = p[i] THEN 1 + runLength(p, i + 1) ELSE 1

\* the text of the quoted span whose first character is at j, and the
\* position after the span: two quotes give one quote character, one quote
\* ends the span, and a span that is not ended extends to the end of p
RECURSIVE quotedSpan(_, _)
quotedSpan(p, j) ==
  IF j > Len(p) THEN [text |-> <<>>, next |-> j]
  ELSE IF p[j] = "'"
  THEN IF j < Len(p) /\ p[j + 1] = "'"
       THEN LET r == quotedSpan(p, j + 2)
            IN  [text |-> <<"'">> \o r.text, next |-> r.next]
       ELSE [text |-> <<>>, next |-> j + 1]
  ELSE LET r == quotedSpan(p, j + 1)
       IN  [text |-> <<p[j]>> \o r.text, next |-> r.next]

\* nextToken taking a quote for an ordinary character
nextToken_unquoted(p, i) ==
  IF p[i] \in PatternLetters
  THEN LET n == runLength(p, i)
       IN  [kind |-> "directive", letter |-> p[i],
            run |-> SubSeq(p, i, i + n - 1), raw |-> SubSeq(p, i, i + n - 1)]
  ELSE [kind |-> "literal", letter |-> p[i], run |-> <<p[i]>>, raw |-> <<p[i]>>]

\* nextToken advancing by the length of the decoded text of a quoted span,
\* in quotes, not by the length of the span in p
nextToken_decodedLength(p, i) ==
  IF p[i] = "'" /\ ~(i < Len(p) /\ p[i + 1] = "'")
  THEN LET r == quotedSpan(p, i + 1)
       IN  [kind |-> "literal", letter |-> "'", run |-> r.text,
            raw |-> <<"'">> \o r.text \o <<"'">>]
  ELSE nextToken_unquoted(p, i)

\* the token that starts at position i of p: `run` is the run of the letter
\* of a directive and the text of a literal, `raw` the characters consumed
nextToken(p, i) ==
  IF p[i] = "'"
  THEN IF i < Len(p) /\ p[i + 1] = "'"
       THEN [kind |-> "literal", letter |-> "'", run |-> <<"'">>,
             raw |-> <<"'", "'">>]
       ELSE LET r == quotedSpan(p, i + 1)
            IN  [kind |-> "literal", letter |-> "'", run |-> r.text,
                 raw |-> SubSeq(p, i, r.next - 1)]
  ELSE IF p[i] \in PatternLetters
  THEN LET n == runLength(p, i)
       IN  [kind |-> "directive", letter |-> p[i],
            run |-> SubSeq(p, i, i + n - 1), raw |-> SubSeq(p, i, i + n - 1)]
  ELSE [kind |-> "literal", letter |-> p[i], run |-> <<p[i]>>, raw |-> <<p[i]>>]

\* the tokens of p from position i on
RECURSIVE scan(_, _)
scan(p, i) ==
  IF i > Len(p) THEN <<>>
  ELSE LET t == nextToken(p, i)
       IN  <<t>> \o scan(p, i + Len(t.raw))

isDigit(c) == \E i \in 1..10 : Digits[i] = c

\* a rendered number: digits, after an optional minus sign
isNumeric(text) ==
  /\ Len(text) > 0
  /\ \A i \in 1..Len(text) : isDigit(text[i]) \/ (i = 1 /\ text[i] = "-")
  /\ \E i \in 1..Len(text) : isDigit(text[i])

\* the number a run of digits denotes
RECURSIVE digitsValue(_)
digitsValue(text) ==
  IF Len(text) = 0 THEN 0
  ELSE 10 * digitsValue(SubSeq(text, 1, Len(text) - 1))
         + ((CHOOSE i \in 1..10 : Digits[i] = text[Len(text)]) - 1)

numberOf(text) ==
  IF text[1] = "-" THEN -digitsValue(Tail(text)) ELSE digitsValue(text)

\* the suffix of localize.ordinalNumber (en-US)
ordinalSuffix(number) ==
  LET rem100 == number % 100
  IN  IF number >= 0 /\ (rem100 > 20 \/ rem100 < 10)
      THEN CASE rem100 % 10 = 1 -> <<"s", "t">>
             [] rem100 % 10 = 2 -> <<"n", "d">>
             [] rem100 % 10 = 3 -> <<"r", "d">>
             [] OTHER -> <<"t", "h">>
      ELSE <<"t", "h">>

\* the output of the tokens from i on, appended to out; last is the output
\* of the token before i when that was a directive, and <<>> otherwise
RECURSIVE formatTokens(_, _, _, _, _, _)
formatTokens(tokens, i, d, out, calls, last) ==
  IF i > Len(tokens) THEN Returned(out, calls)
  ELSE LET t == tokens[i]
       IN  IF t.kind = "literal"
           THEN formatTokens(tokens, i + 1, d, out \o t.run, calls, <<>>)
           ELSE IF t.letter = "o"
           THEN IF Len(t.run) = 1 /\ isNumeric(last)
                THEN formatTokens(tokens, i + 1, d,
                                  out \o ordinalSuffix(numberOf(last)), calls, <<>>)
                ELSE Thrown("UnknownDirective")
           ELSE LET r == dispatch(t.letter, t.run, d)
                IN  IF r.status # "ok" THEN Thrown(r.status)
                    ELSE formatTokens(tokens, i + 1, d, out \o r.text,
                                      calls \o r.calls, r.text)

\* format without the validity test
format_unchecked(d, formatStr) ==
  formatTokens(scan(formatStr, 1), 1, d, <<>>, NoCalls, <<>>)

\* String('Invalid Date')
InvalidDateText ==
  <<"I", "n", "v", "a", "l", "i", "d", " ", "D", "a", "t", "e">>

\* an invalid date is answered before the pattern is scanned
format(d, formatStr) ==
  IF ~isValid(d) THEN Returned(InvalidDateText, NoCalls)
  ELSE formatTokens(scan(formatStr, 1), 1, d, <<>>, NoCalls, <<>>)

(***************************************************************************)
(* The dates and patterns tried.                                           *)
(***************************************************************************)
\* the date of the test suite: 1986-04-04T00:32:55.123
BaseDate ==
  [year |-> 1986, month |-> 3, day |-> 4, hours |-> 0, minutes |-> 32,
   seconds |-> 55, milliseconds |-> 123, timezoneOffset |-> 0,
   valid |-> TRUE]

\* new Date(NaN): no field of it is a number, and none is read
InvalidDate == [BaseDate EXCEPT !.valid = FALSE]

SampleYears ==
  {-10000, -1234, -100, 99, 100, 123, 999, 1000, 1234, 1986, 2013, 2016,
   9999, 10000, 12345}

Years == ((0 - YearSpan)..YearSpan) \cup SampleYears

\* every year, on January 1, July 2 and December 30
YearDates ==
  {[BaseDate EXCEPT !.year = y, !.month = md[1], !.day = md[2]] :
     y \in Years, md \in {<<0, 1>>, <<6, 2>>, <<11, 30>>}}

\* every hour of the day
HourDates == {[BaseDate EXCEPT !.hours = h] : h \in 0..23}

\* every millisecond of the second
MillisecondDates == {[BaseDate EXCEPT !.milliseconds = ms] : ms \in 0..999}

\* every day of the year 1986
CalendarDates ==
  {[BaseDate EXCEPT !.month = md[1], !.day = md[2]] :
     md \in {x \in (0..11) \X (1..31) : x[2] <= daysInMonth(BaseDate.year, x[1])}}

\* timezone offsets, in minutes: whole hours and not, ahead of UTC and behind
Offsets == {-345, -330, -120, -60, 0, 60, 300, 570}

\* noon of three days, in every timezone: the first is the day before the
\* epoch, and the time value of the second fits 32 bits
ZoneDates ==
  {[BaseDate EXCEPT !.year = ymd[1], !.month = ymd[2], !.day = ymd[3],
                    !.hours = 12, !.timezoneOffset = o] :
     ymd \in {<<1969, 11, 31>>, <<1970, 0, 15>>, <<1986, 3, 4>>}, o \in Offsets}

\* years divisible by 4, by 100 and by 400, and years that are not
LeapSampleYears == {-4, 0, 4, 100, 400, 1900, 1986, 1992, 2000, 2100}

\* the first and last day of the year and the days around the end of
\* February, at the first and at the last millisecond of the day
YearEdgeDates ==
  {[BaseDate EXCEPT !.year = y, !.month = md[1], !.day = md[2],
                    !.hours = t[1], !.minutes = t[2], !.seconds = t[3],
                    !.milliseconds = t[4]] :
     y \in LeapSampleYears,
     md \in {<<0, 1>>, <<1, 28>>, <<2, 1>>, <<11, 31>>},
     t \in {<<0, 0, 0, 0>>, <<23, 59, 59, 999>>}}
  \cup {[BaseDate EXCEPT !.year = y, !.month = 1, !.day = 29] :
          y \in {x \in LeapSampleYears : isLeapYear(x)}}

\* years whose first and last days fall on every day of the week, and the
\* years 7 and 8 of the test of dates before 100 AD
WeekSampleYears == (2009..2021) \cup {7, 8}

\* the last four days and the first four days of these years
WeekEdgeDates ==
  {[BaseDate EXCEPT !.year = y, !.month = md[1], !.day = md[2]] :
     y \in WeekSampleYears,
     md \in {<<11, 28>>, <<11, 29>>, <<11, 30>>, <<11, 31>>,
             <<0, 1>>, <<0, 2>>, <<0, 3>>, <<0, 4>>}}

Dates ==
  YearDates \cup HourDates \cup MillisecondDates \cup CalendarDates
  \cup ZoneDates \cup YearEdgeDates \cup WeekEdgeDates \cup {InvalidDate}

\* the options a formatter is called with: without an original date, and
\* for the dates in some timezone also with it
Options(d) ==
  IF d \in ZoneDates THEN {NoOriginalDate, optionsOf(d)} ELSE {NoOriginalDate}

RunLengths == 1..MaxLen

\* the keys of the earlier table for the fractional second
LegacyKeys == {<<"S">>, <<"S", "S">>, <<"S", "S", "S">>}

\* the patterns given to format: every run followed by `o`, and patterns
\* of several tokens with literal text between them
QuotedLettersPattern ==
  <<"'", "y", "y", "y", "y", "-", "'", "M", "M", "-", "d", "d", "'",
    "T", "H", "H", ":", "m", "m", ":", "s", "s", ".", "S", "S", "S",
    "X", "'", " ", "y", "y", "y", "y", "-", "'", "M", "M", "-", "d",
    "d", "'">>

QuotedQuotesPattern ==
  <<"'", "'", "h", " ", "'", "o", "'", "'", "c", "l", "o", "c", "k",
    "'", "'", "'">>

InvalidDatePattern ==
  <<"M", "M", "M", "M", " ", "d", ",", " ", "y", "y", "y", "y">>

\* short texts of letters and other characters, to be put in quotes
LiteralChars == {"y", "M", "-"}

LiteralTexts ==
  {<<a>> : a \in LiteralChars} \cup {<<a, b>> : a, b \in LiteralChars}

FormatPatterns ==
  {Repeat(l, n) \o <<"o">> : l \in TableLetters \ {"G"}, n \in RunLengths}
  \cup {<<l>> : l \in DocumentedLetters}
  \cup {QuotedLettersPattern, QuotedQuotesPattern, InvalidDatePattern}
  \cup {<<"'">> \o text \o <<"'">> : text \in LiteralTexts}
  \cup {<<"'">> \o text : text \in LiteralTexts}
  \cup {<<"y", "y", "y", "y", "-", "d", "d">>, <<"Q", " ", "Q", "Q">>,
        <<"d", " ", "d", "o">>, <<"G", " ", "y">>, <<"Y", " ", "w", "w">>}

(***************************************************************************)
(* The state machine: a date is constructed, then formatters are called on *)
(* it, directly or through format.  Calls are synchronous and keep no      *)
(* state: a call starts when no call is in progress, and its result is     *)
(* discarded when the caller has taken it.  A formatter of the table is    *)
(* called with a valid date; format is called with any date.               *)
(***************************************************************************)
NoResult == [status |-> "none", text |-> <<>>, calls |-> NoCalls]

Init ==
  /\ date \in Dates
  /\ formatterOptions \in Options(date)
  /\ called = "none"
  /\ token = <<>>
  /\ args = <<>>
  /\ result = NoResult

Call(name, p, r) ==
  /\ called = "none"
  /\ (name # "format") => isValid(date)
  /\ called' = name
  /\ token' = p
  /\ result' = r
  /\ UNCHANGED <<date, formatterOptions, args>>

Format_G == \E n \in RunLengths : Call("G", Repeat("G", n), formatters_G(Repeat("G", n), date))
Format_y == \E n \in RunLengths : Call("y", Repeat("y", n), formatters_y(Repeat("y", n), date))
Format_Y == \E n \in RunLengths : Call("Y", Repeat("Y", n), formatters_Y(Repeat("Y", n), date))
Format_u == \E n \in RunLengths : Call("u", Repeat("u", n), formatters_u(Repeat("u", n), date))
Format_Q == \E n \in RunLengths : Call("Q", Repeat("Q", n), formatters_Q(Repeat("Q", n), date))
Format_q == \E n \in RunLengths : Call("q", Repeat("q", n), formatters_q(Repeat("q", n), date))
Format_M == \E n \in RunLengths : Call("M", Repeat("M", n), formatters_M(Repeat("M", n), date))
Format_L == \E n \in RunLengths : Call("L", Repeat("L", n), formatters_L(Repeat("L", n), date))
Format_w == \E n \in RunLengths : Call("w", Repeat("w", n), formatters_w(Repeat("w", n), date))
Format_d == \E n \in RunLengths : Call("d", Repeat("d", n), formatters_d(Repeat("d", n), date))
Format_D == \E n \in RunLengths : Call("D", Repeat("D", n), formatters_D(Repeat("D", n), date))
Format_E == \E n \in RunLengths : Call("E", Repeat("E", n), formatters_E(Repeat("E", n), date))
Format_c == \E n \in RunLengths : Call("c", Repeat("c", n), formatters_c(Repeat("c", n), date))
Format_a == \E n \in RunLengths : Call("a", Repeat("a", n), formatters_a(Repeat("a", n), date))
Format_h == \E n \in RunLengths : Call("h", Repeat("h", n), formatters_h(Repeat("h", n), date))
Format_H == \E n \in RunLengths : Call("H", Repeat("H", n), formatters_H(Repeat("H", n), date))
Format_K == \E n \in RunLengths : Call("K", Repeat("K", n), formatters_K(Repeat("K", n), date))
Format_k == \E n \in RunLengths : Call("k", Repeat("k", n), formatters_k(Repeat("k", n), date))
Format_m == \E n \in RunLengths : Call("m", Repeat("m", n), formatters_m(Repeat("m", n), date))
Format_s == \E n \in RunLengths : Call("s", Repeat("s", n), formatters_s(Repeat("s", n), date))
Format_S == \E n \in RunLengths : Call("S", Repeat("S", n), formatters_S(Repeat("S", n), date))
Format_X == \E n \in RunLengths : Call("X", Repeat("X", n), formatters_X(Repeat("X", n), date, formatterOptions))
Format_x == \E n \in RunLengths : Call("x", Repeat("x", n), formatters_x(Repeat("x", n), date, formatterOptions))
Format_t == \E n \in RunLengths : Call("t", Repeat("t", n), formatters_t(Repeat("t", n), date, formatterOptions))
Format_T == \E n \in RunLengths : Call("T", Repeat("T", n), formatters_T(Repeat("T", n), date, formatterOptions))

Format == \E p \in FormatPatterns : Call("format", p, format(date, p))

\* a call of an entry of the earlier table
Format_legacy == \E key \in LegacyKeys : Call("legacy", key, legacyFormatters(key, date))

\* the caller has taken the result
Discard ==
  /\ called # "none"
  /\ called' = "none"
  /\ token' = <<>>
  /\ args' = <<>>
  /\ result' = NoResult
  /\ UNCHANGED <<date, formatterOptions>>

Next ==
  \/ Format_G
  \/ Format_y
  \/ Format_Y
  \/ Format_u
  \/ Format_Q
  \/ Format_q
  \/ Format_M
  \/ Format_L
  \/ Format_w
  \/ Format_d
  \/ Format_D
  \/ Format_E
  \/ Format_c
  \/ Format_a
  \/ Format_h
  \/ Format_H
  \/ Format_K
  \/ Format_k
  \/ Format_m
  \/ Format_s
  \/ Format_S
  \/ Format_X
  \/ Format_x
  \/ Format_t
  \/ Format_T
  \/ Format
  \/ Format_legacy
  \/ Discard

Spec == Init /\ [][Next]_vars

(***************************************************************************)
(* The helper functions of the module, called on their own: the numbers    *)
(* given are kept in args, and the delimeter of formatTimezone in token.   *)
(***************************************************************************)
PadNumbers == (0 - MaxPadNumber)..MaxPadNumber

\* negative lengths and 0 too: the loop does not run for them
TargetLengths == (0 - 2)..MaxTarget

TimezoneOffsets == (0 - MaxOffset)..MaxOffset

Delimeters == {<<>>, <<":">>}

HelperInit ==
  /\ date = BaseDate
  /\ formatterOptions = NoOriginalDate
  /\ called = "none"
  /\ token = <<>>
  /\ args = <<>>
  /\ result = NoResult

CallHelper(name, a, p, r) ==
  /\ called = "none"
  /\ called' = name
  /\ args' = a
  /\ token' = p
  /\ result' = r
  /\ UNCHANGED <<date, formatterOptions>>

Call_addLeadingZeros ==
  \E number \in PadNumbers, targetLength \in TargetLengths :
    CallHelper("addLeadingZeros", <<number, targetLength>>, <<>>,
               Returned(addLeadingZeros(number, targetLength), NoCalls))

Call_formatTimezone ==
  \E offset \in TimezoneOffsets, delimeter \in Delimeters :
    CallHelper("formatTimezone", <<offset>>, delimeter,
               Returned(formatTimezone(offset, delimeter), NoCalls))

HelperNext ==
  \/ Call_addLeadingZeros
  \/ Call_formatTimezone
  \/ Discard

SpecHelpers == HelperInit /\ [][HelperNext]_vars

(***************************************************************************)
(* The scanner followed token by token: token is the pattern, args holds   *)
(* the position of the next character and result.text the characters       *)
(* consumed so far.  The loop of scan is one ScanStep for each token; it   *)
(* is not interrupted, which is the fairness of SpecScan.                  *)
(***************************************************************************)
ScanChars == {"'", "y", "o", "-"}

\* every string over ScanChars of the lengths 0 .. MaxPattern
ScanPatterns ==
  UNION {[1..n -> ScanChars] : n \in 0..MaxPattern}

Scanning(text) == [status |-> "scanning", text |-> text, calls |-> NoCalls]

ScanStart ==
  \E p \in ScanPatterns :
    /\ called = "none"
    /\ called' = "scan"
    /\ token' = p
    /\ args' = <<1>>
    /\ result' = Scanning(<<>>)
    /\ UNCHANGED <<date, formatterOptions>>

ScanStep ==
  /\ called = "scan"
  /\ result.status = "scanning"
  /\ args[1] <= Len(token)
  /\ LET t == nextToken(token, args[1])
     IN  /\ args' = <<args[1] + Len(t.raw)>>
         /\ result' = Scanning(result.text \o t.raw)
  /\ UNCHANGED <<date, formatterOptions, called, token>>

ScanDone ==
  /\ called = "scan"
  /\ result.status = "scanning"
  /\ args[1] > Len(token)
  /\ result' = Returned(result.text, NoCalls)
  /\ UNCHANGED <<date, formatterOptions, called, token, args>>

ScanReturn ==
  /\ called = "scan"
  /\ result.status = "ok"
  /\ Discard

ScanNext ==
  \/ ScanStart
  \/ ScanStep
  \/ ScanDone
  \/ ScanReturn

SpecScan ==
  /\ HelperInit
  /\ [][ScanNext]_vars
  /\ WF_vars(ScanStep)
  /\ WF_vars(ScanDone)

TypeOK ==
  /\ called \in TableLetters
                \cup {"none", "format", "legacy", "addLeadingZeros", "formatTimezone", "scan"}
  /\ result.status \in {"none", "ok", "ReferenceError", "UnknownDirective", "scanning"}
  /\ \A i \in 1..Len(args) : args[i] \in Int

(***************************************************************************)
(* Operators used to state the properties.                                 *)
(***************************************************************************)
Max(a, b) == IF a >= b THEN a ELSE b

\* number of decimal digits of a non-negative integer
RECURSIVE NumDigits(_)
NumDigits(n) == IF n < 10 THEN 1 ELSE 1 + NumDigits(n \div 10)

AllDigits(text) == \A i \in 1..Len(text) : isDigit(text[i])

\* text is the decimal form of value, padded on the left with zeros to n
\* characters and never truncated
ZeroPadded(text, value, n) ==
  /\ AllDigits(text)
  /\ Len(text) = Max(n, NumDigits(value))
  /\ digitsValue(text) = value

\* the year reported for a signed year under the BC convention
ReportedYear(signedYear) == IF signedYear > 0 THEN signedYear ELSE 1 - signedYear

Returns == result.status = "ok"

(***************************************************************************)
(* C1: for every signed year and every run length other than 2,            *)
(* formatters.y renders the year of the BC convention (year 0 as 1,        *)
(* year -1 as 2), zero-padded to the run length, without a minus sign.     *)
(***************************************************************************)
C1_YearBCConvention ==
  (called = "y" /\ Len(token) # 2) =>
    /\ Returns
    /\ ZeroPadded(result.text, ReportedYear(date.year), Len(token))

C1_Witness ==
  /\ called = "y"
  /\ date.year = -1
  /\ token = <<"y", "y", "y", "y">>
  /\ result.text = <<"0", "0", "0", "2">>

(***************************************************************************)
(* C2: for every year, years of five or more digits included, `yy`         *)
(* returns exactly two characters, the last two digits of the reported     *)
(* year.                                                                   *)
(***************************************************************************)
C2_TwoDigitYear ==
  (called = "y" /\ Len(token) = 2) =>
    /\ Returns
    /\ Len(result.text) = 2
    /\ ZeroPadded(result.text, ReportedYear(date.year) % 100, 2)

(***************************************************************************)
(* C3: for every hour 0..23 and run length n the hour formatters render,   *)
(* zero-padded to n: h = 12 when hour mod 12 is 0 and hour mod 12          *)
(* otherwise, H = hour, K = hour mod 12, k = 24 when hour is 0 and hour    *)
(* otherwise.  Hour 0 gives 12/0/0/24 and hour 12 gives 12/12/0/12.        *)
(***************************************************************************)
HourCycle(letter, hour) ==
  CASE letter = "h" -> (IF hour % 12 = 0 THEN 12 ELSE hour % 12)
    [] letter = "H" -> hour
    [] letter = "K" -> hour % 12
    [] letter = "k" -> (IF hour = 0 THEN 24 ELSE hour)

C3_HourCycles ==
  (called \in {"h", "H", "K", "k"}) =>
    /\ Returns
    /\ ZeroPadded(result.text, HourCycle(called, date.hours), Len(token))
    /\ called = "h" => digitsValue(result.text) \in 1..12
    /\ called = "H" => digitsValue(result.text) \in 0..23
    /\ called = "K" => digitsValue(result.text) \in 0..11
    /\ called = "k" => digitsValue(result.text) \in 1..24
    /\ (date.hours = 0 /\ Len(token) = 1) =>
         result.text = (CASE called = "h" -> <<"1", "2">>
                          [] called = "H" -> <<"0">>
                          [] called = "K" -> <<"0">>
                          [] called = "k" -> <<"2", "4">>)
    /\ (date.hours = 12 /\ Len(token) = 1) =>
         result.text = (CASE called = "h" -> <<"1", "2">>
                          [] called = "H" -> <<"1", "2">>
                          [] called = "K" -> <<"0">>
                          [] called = "k" -> <<"1", "2">>)

C3_Witness ==
  /\ called = "h"
  /\ date.hours = 0
  /\ token = <<"h", "h", "h">>
  /\ result.text = <<"0", "1", "2">>

(***************************************************************************)
(* C4: for every millisecond 0..999 and run length n in 1..4,              *)
(* formatters.S returns exactly n characters: the first n digits of the    *)
(* millisecond written as three zero-padded digits, extended with zeros    *)
(* when n > 3 (123 -> "1", "12", "123", "1230"; 5 with SSS -> "005").      *)
(***************************************************************************)
ThreeDigits(ms) ==
  <<Digits[(ms \div 100) + 1], Digits[((ms \div 10) % 10) + 1], Digits[(ms % 10) + 1]>>

C4_FractionalSecond ==
  (called = "S" /\ Len(token) <= 4) =>
    /\ Returns
    /\ result.text = SubSeq(ThreeDigits(date.milliseconds) \o <<"0">>, 1, Len(token))

C7_WeekYearBCConvention ==
  (called = "Y") =>
    LET W == getUTCISOWeekYear(date)
    IN  /\ Returns
        /\ IF Len(token) = 2
           THEN ZeroPadded(result.text, ReportedYear(W) % 100, 2)
           ELSE ZeroPadded(result.text, ReportedYear(W), Len(token))

(***************************************************************************)
(* C8: `Y` with run length 1 renders the signed week-numbering year: July  *)
(* 2 of year 0 formats as "0" and July 2 of year -1 as "-1".               *)
(***************************************************************************)
C8_WeekYearSigned ==
  (called = "Y" /\ Len(token) = 1 /\ date.month = 6 /\ date.day = 2) =>
    /\ date.year = 0 => result.text = <<"0">>
    /\ date.year = -1 => result.text = <<"-", "1">>

(***************************************************************************)
(* C9: a numeric directive of run length n followed by `o` gives the       *)
(* directive's own output for run length n followed by the ordinal suffix  *)
(* of the number: `do` -> "4th", `ddo` -> "04th", `yyo` -> "86th",         *)
(* `QQo` -> "02nd", `DDDDDo` -> "00094th"; the days 1..31 get st/nd/rd/th  *)
(* with 11th, 12th and 13th.                                               *)
(***************************************************************************)
\* the suffixes of the days 1..31
DaySuffixes ==
  <<<<"s", "t">>, <<"n", "d">>, <<"r", "d">>, <<"t", "h">>, <<"t", "h">>, <<"t", "h">>, <<"t", "h">>, <<"t", "h">>,
    <<"t", "h">>, <<"t", "h">>, <<"t", "h">>, <<"t", "h">>, <<"t", "h">>, <<"t", "h">>, <<"t", "h">>, <<"t", "h">>,
    <<"t", "h">>, <<"t", "h">>, <<"t", "h">>, <<"t", "h">>, <<"s", "t">>, <<"n", "d">>, <<"r", "d">>, <<"t", "h">>,
    <<"t", "h">>, <<"t", "h">>, <<"t", "h">>, <<"t", "h">>, <<"t", "h">>, <<"t", "h">>, <<"s", "t">>>>

EnglishSuffix(v) ==
  IF v < 0 \/ (v % 100) \in {11, 12, 13} THEN <<"t", "h">>
  ELSE IF v % 10 = 1 THEN <<"s", "t">>
  ELSE IF v % 10 = 2 THEN <<"n", "d">>
  ELSE IF v % 10 = 3 THEN <<"r", "d">>
  ELSE <<"t", "h">>

OrdinalPattern ==
  /\ called = "format"
  /\ isValid(date)
  /\ Len(token) >= 2
  /\ token = Repeat(token[1], Len(token) - 1) \o <<"o">>

QuarterOfMonth == <<1, 1, 1, 2, 2, 2, 3, 3, 3, 4, 4, 4>>

C10_QuarterDigits ==
  (called \in {"Q", "q"} /\ Len(token) \in {1, 2}) =>
    /\ Returns
    /\ result.calls = <<>>
    /\ Len(result.text) = Len(token)
    /\ AllDigits(result.text)
    /\ digitsValue(result.text) = QuarterOfMonth[date.month + 1]
    /\ 3 * (digitsValue(result.text) - 1) < date.month + 1
    /\ date.month + 1 <= 3 * digitsValue(result.text)

C10_Witness ==
  /\ called = "q"
  /\ date.month = 11
  /\ token = <<"q", "q">>
  /\ result.text = <<"0", "4">>

(***************************************************************************)
(* C11: for every month 0..11, formatters.M and formatters.L select their  *)
(* output by run length: 1 gives month + 1 in digits, 2 gives month + 1    *)
(* zero-padded to two characters, 3 the abbreviated name, 4 the wide name  *)
(* and 5 the narrow name of the month, asked of the localizer's month      *)
(* capability; M and L ask for the same width and differ only in the       *)
(* context, formatting for M and standalone for L.                         *)
(***************************************************************************)
MonthWidth(n) ==
  CASE n = 3 -> "abbreviated"
    [] n = 4 -> "wide"
    [] n = 5 -> "narrow"

C11_MonthByRunLength ==
  (called \in {"M", "L"} /\ Len(token) <= 5) =>
    LET n       == Len(token)
        context == IF called = "M" THEN "formatting" ELSE "standalone"
    IN  /\ Returns
        /\ n = 1 => result.text = toString(date.month + 1)
        /\ n = 2 => ZeroPadded(result.text, date.month + 1, 2)
        /\ n <= 2 => result.calls = NoCalls
        /\ n >= 3 =>
             /\ result.calls =
                  <<LocalizeCall("month", date.month, MonthWidth(n), context)>>
             /\ result.text = localize("month", date.month, MonthWidth(n), context)

(***************************************************************************)
(* C12: a name-producing branch of Q/q, M/L (run length 3 and more) or of  *)
(* E/c calls the localizer with the unit value read from the date being    *)
(* formatted: the quarter 1..4, the month index 0..11, the day of the week *)
(* 0..6; the value is never the era code and never undefined.              *)
(***************************************************************************)
NameBranch ==
  /\ called \in {"Q", "q", "M", "L", "E", "c"}
  /\ Len(token) >= 3

UnitValue ==
  CASE called \in {"Q", "q"} -> QuarterOfMonth[date.month + 1]
    [] called \in {"M", "L"} -> date.month
    [] called \in {"E", "c"} -> getUTCDay(date)

C12_LocalizerReceivesUnitValue ==
  NameBranch =>
    /\ Returns
    /\ Len(result.calls) = 1
    /\ result.calls[1].value = UnitValue

(***************************************************************************)
(* C13: for every date and every run length, formatters.E and formatters.c *)
(* obtain their text from the localizer's weekday capability: run lengths  *)
(* 1 to 3 ask for the abbreviated width, 4 for wide, 5 for narrow and 6    *)
(* for short, in the context formatting for E and standalone for c; no run *)
(* length is answered by the month capability or by a placeholder string.  *)
(***************************************************************************)
WeekdayWidth(n) ==
  CASE n \in {1, 2, 3} -> "abbreviated"
    [] n = 4 -> "wide"
    [] n = 5 -> "narrow"
    [] n = 6 -> "short"

C13_WeekdayByRunLength ==
  (called \in {"E", "c"} /\ Len(token) <= 6) =>
    LET width   == WeekdayWidth(Len(token))
        context == IF called = "E" THEN "formatting" ELSE "standalone"
    IN  /\ Returns
        /\ result.calls =
             <<LocalizeCall("weekday", getUTCDay(date), width, context)>>
        /\ result.text = localize("weekday", getUTCDay(date), width, context)

(***************************************************************************)
(* C14: formatters.E with run length 1 renders the ISO number of the day   *)
(* of the week, Monday as "1" up to Saturday as "6" and Sunday as "7",     *)
(* never "0"; the seven days 1986-09-01 .. 1986-09-07 give "1" .. "7", and *)
(* the run length 2 gives the same number zero-padded to two characters.   *)
(***************************************************************************)
ISODayOfWeek(d) == IF getUTCDay(d) = 0 THEN 7 ELSE getUTCDay(d)

C14_ISODayOfWeekNumber ==
  (called = "E" /\ Len(token) \in {1, 2}) =>
    /\ Returns
    /\ ZeroPadded(result.text, ISODayOfWeek(date), Len(token))
    /\ (date.year = 1986 /\ date.month = 8 /\ date.day \in 1..7) =>
         digitsValue(result.text) = date.day

(***************************************************************************)
(* C15: every directive letter documented as implemented (G, y, Y, u, Q,   *)
(* q, M, L, w, d, D, E, e, c, a, h, H, K, k, m, s, S, X, x, t, T) has an   *)
(* entry in the formatter table, so that the lookup of a run of that       *)
(* letter always finds a formatter; in particular `e` is present.          *)
(***************************************************************************)
C15_DocumentedLettersInTable ==
  (called = "format" /\ isValid(date) /\ Len(token) = 1
     /\ token[1] \in DocumentedLetters) =>
    /\ token[1] \in TableLetters
    /\ result.status # "UnknownDirective"

(***************************************************************************)
(* C16: for every run length, formatters.X returns exactly "Z" when the    *)
(* timezone offset of the original instant is 0, and formatters.x never    *)
(* returns "Z": with the offset 0, x renders "+00" for the run length 1,   *)
(* "+0000" for the run lengths 2 and 4 and "+00:00" for 3 and 5.           *)
(***************************************************************************)
\* the original instant of a direct call: options._originalDate when the
\* options hold one, and the date otherwise
OriginalInstant ==
  IF "_originalDate" \in DOMAIN formatterOptions
  THEN formatterOptions._originalDate ELSE date

ZeroOffsetText(n) ==
  CASE n = 1 -> <<"+", "0", "0">>
    [] n \in {2, 4} -> <<"+", "0", "0", "0", "0">>
    [] n \in {3, 5} -> <<"+", "0", "0", ":", "0", "0">>

C16_ZeroOffset ==
  (called \in {"X", "x"} /\ Len(token) <= 5) =>
    /\ (called = "x") => result.text # <<"Z">>
    /\ (OriginalInstant.timezoneOffset = 0) =>
         /\ Returns
         /\ (called = "X") => result.text = <<"Z">>
         /\ (called = "x") => result.text = ZeroOffsetText(Len(token))

(***************************************************************************)
(* C17: for every non-zero timezone offset, formatters.X and formatters.x  *)
(* with run length 1 render a sign and the two-digit count of hours when   *)
(* the offset is a whole number of hours, and the sign, two-digit hours    *)
(* and two-digit minutes without delimiter when it is not; the sign is '+' *)
(* when the local time is ahead of UTC (getTimezoneOffset() < 0).          *)
(***************************************************************************)
OffsetSign(offset) == IF offset < 0 THEN <<"+">> ELSE <<"-">>

TwoDigits(n) == <<Digits[(n \div 10) + 1], Digits[(n % 10) + 1]>>

OffsetHours(offset) == TwoDigits(Abs(offset) \div 60)

OffsetMinutes(offset) == TwoDigits(Abs(offset) % 60)

C17_OffsetHoursOptionalMinutes ==
  LET offset == OriginalInstant.timezoneOffset
  IN  (called \in {"X", "x"} /\ Len(token) = 1 /\ offset # 0) =>
        /\ Returns
        /\ Abs(offset) % 60 = 0 =>
             result.text = OffsetSign(offset) \o OffsetHours(offset)
        /\ Abs(offset) % 60 # 0 =>
             result.text =
               OffsetSign(offset) \o OffsetHours(offset) \o OffsetMinutes(offset)

(***************************************************************************)
(* C18: formatters.X and formatters.x choose the shape of a non-zero       *)
(* offset from their run length: 2 and 4 give sign, hours and minutes      *)
(* without delimiter, 3 and 5 give sign, hours, ':' and minutes; for every *)
(* non-zero offset and every run length 1..5, X and x produce the same     *)
(* string.                                                                 *)
(***************************************************************************)
C18_OffsetShapeByRunLength ==
  LET offset == OriginalInstant.timezoneOffset
      n      == Len(token)
  IN  (called \in {"X", "x"} /\ n <= 5 /\ offset # 0) =>
        /\ Returns
        /\ n \in {2, 4} =>
             result.text =
               OffsetSign(offset) \o OffsetHours(offset) \o OffsetMinutes(offset)
        /\ n \in {3, 5} =>
             result.text =
               OffsetSign(offset) \o OffsetHours(offset) \o <<":">>
                 \o OffsetMinutes(offset)
        /\ formatters_X(Repeat("X", n), date, formatterOptions).status = "ok"
        /\ formatters_x(Repeat("x", n), date, formatterOptions).status = "ok"
        /\ formatters_X(Repeat("X", n), date, formatterOptions).text
             = formatters_x(Repeat("x", n), date, formatterOptions).text

(***************************************************************************)
(* C19: for every instant, formatters.t renders the floor of the epoch     *)
(* milliseconds of the original instant divided by 1000, and formatters.T  *)
(* renders the epoch milliseconds, each zero-padded to the run length; so  *)
(* the number rendered by t is the floor of the number rendered by T       *)
(* divided by 1000.                                                        *)
(***************************************************************************)
\* the instants whose epoch milliseconds are non-negative and fit 32 bits
EpochInstant == OriginalInstant.year = 1970 /\ OriginalInstant.month = 0

C19_Timestamps ==
  (called \in {"t", "T"} /\ EpochInstant) =>
    /\ Returns
    /\ (called = "t") =>
         ZeroPadded(result.text, getTime(OriginalInstant) \div 1000, Len(token))
    /\ (called = "T") =>
         /\ ZeroPadded(result.text, getTime(OriginalInstant), Len(token))
         /\ formatters_t(Repeat("t", Len(token)), date, formatterOptions).status = "ok"
         /\ digitsValue(formatters_t(Repeat("t", Len(token)), date,
                                     formatterOptions).text)
              = digitsValue(result.text) \div 1000

(***************************************************************************)
(* C20: for every valid date, formatters.D renders the 1-based ordinal day *)
(* within the civil year, zero-padded to the run length: January 1 is 1,   *)
(* and December 31 is 366 exactly when the year is divisible by 4 and not  *)
(* by 100, or divisible by 400, and 365 otherwise; the value does not      *)
(* depend on the time of day (1992-12-31T23:59:59.999 gives "366",         *)
(* 1986-04-04 gives "94", and "094" with the run length 3).                *)
(***************************************************************************)
LeapByRule(year) == year % 4 = 0 /\ (year % 100 # 0 \/ year % 400 = 0)

\* days of a common year before the first of each month
DaysBeforeMonth == <<0, 31, 59, 90, 120, 151, 181, 212, 243, 273, 304, 334>>

OrdinalDay(d) ==
  DaysBeforeMonth[d.month + 1] + d.day
    + (IF d.month > 1 /\ LeapByRule(d.year) THEN 1 ELSE 0)

C20_DayOfYear ==
  (called = "D") =>
    /\ Returns
    /\ result.calls = NoCalls
    /\ ZeroPadded(result.text, OrdinalDay(date), Len(token))
    /\ (date.month = 0 /\ date.day = 1) => digitsValue(result.text) = 1
    /\ (date.month = 11 /\ date.day = 31) =>
         digitsValue(result.text) = IF LeapByRule(date.year) THEN 366 ELSE 365
    /\ (date.year = 1986 /\ date.month = 3 /\ date.day = 4) =>
         /\ Len(token) = 1 => result.text = <<"9", "4">>
         /\ Len(token) = 3 => result.text = <<"0", "9", "4">>

C20_Witness ==
  /\ called = "D"
  /\ date.year = 1992 /\ date.month = 11 /\ date.day = 31
  /\ date.hours = 23 /\ date.minutes = 59 /\ date.seconds = 59
  /\ date.milliseconds = 999
  /\ token = <<"D">>
  /\ result.text = <<"3", "6", "6">>

WeekOfThursday(d) ==
  LET thursday == startOfUTCISOWeek(daysFromCivil(d.year, d.month, d.day)) + 3
      ordinal  == thursday - daysFromCivil(getUTCISOWeekYear(d), 0, 1) + 1
  IN  (ordinal - 1) \div 7 + 1

C22_WeekConsistentWithWeekYear ==
  /\ (called = "w") =>
       LET W == getUTCISOWeekYear(date)
           v == digitsValue(result.text)
       IN  /\ Returns
           /\ v \in 1..53
           /\ ZeroPadded(result.text, WeekOfThursday(date), Len(token))
           /\ (date.month = 11 /\ W = date.year + 1) => v = 1
           /\ (date.month = 0 /\ W = date.year - 1) => v \in {52, 53}
           /\ (date = BaseDate /\ Len(token) <= 2) => result.text = <<"1", "4">>
  /\ (called = "format" /\ isValid(date) /\ token = <<"Y", " ", "w", "w">>) =>
       /\ Returns
       /\ (date.year = 7 /\ date.month = 11 /\ date.day = 31) =>
            result.text = <<"8", " ", "0", "1">>

C22_Witness ==
  /\ called = "format"
  /\ date.year = 7 /\ date.month = 11 /\ date.day = 31
  /\ token = <<"Y", " ", "w", "w">>
  /\ result.text = <<"8", " ", "0", "1">>

(***************************************************************************)
(* C23: for every signed UTC year, formatters.G passes the era code +1 to  *)
(* the localizer exactly when the year is greater than 0 and -1 otherwise  *)
(* (the year 0, 1 BC, is BC), and picks the width from the run length:     *)
(* 1 to 3 abbreviated, 4 wide, 5 narrow, and any longer run wide.          *)
(***************************************************************************)
EraWidth(n) ==
  IF n <= 3 THEN "abbreviated" ELSE IF n = 5 THEN "narrow" ELSE "wide"

C23_EraCodeAndWidth ==
  (called = "G") =>
    /\ Returns
    /\ Len(result.calls) = 1
    /\ result.calls[1].fn = "era"
    /\ result.calls[1].value = 1 <=> date.year > 0
    /\ result.calls[1].value = -1 <=> date.year <= 0
    /\ result.calls[1].width = EraWidth(Len(token))

C23_Witness ==
  /\ called = "G"
  /\ date.year = 0
  /\ Len(token) = 6
  /\ result.calls = <<LocalizeCall("era", -1, "wide", "none")>>

(***************************************************************************)
(* C24: for every pattern, format of an invalid date (a NaN time value)    *)
(* returns exactly the string "Invalid Date": no error is raised, no       *)
(* formatter is called and no part of the pattern appears in the output.   *)
(***************************************************************************)
C24_InvalidDateSentinel ==
  (called = "format" /\ ~isValid(date)) =>
    /\ Returns
    /\ result.text = InvalidDateText
    /\ result.calls = NoCalls

C24_Witness ==
  /\ called = "format"
  /\ date = InvalidDate
  /\ token = InvalidDatePattern
  /\ result.text = InvalidDateText

(***************************************************************************)
(* C25: for every valid date, text between single quotes is emitted        *)
(* verbatim, with the enclosing quotes removed and no directive letter     *)
(* inside it interpreted, and two consecutive single quotes, inside or     *)
(* outside a quoted span, produce exactly one quote character: the pattern *)
(* QuotedQuotesPattern gives "'5 o'clock'" at 5 o'clock, and the pattern   *)
(* QuotedLettersPattern gives "yyyy-04-04THH:mm:ss.SSSX 1986-MM-dd" on     *)
(* 1986-04-04.  The statement with the output                              *)
(* "YYYY-04-04THH:mm:ss.SSSX 1986-MM-dd" for the latter is                 *)
(* C25_QuotedTextUpperCased.                                               *)
(***************************************************************************)
FiveOClock ==
  <<"'", "5", " ", "o", "'", "c", "l", "o", "c", "k", "'">>

\* the part of the statement that does not depend on the example output
QuotedSpansVerbatim ==
  (called = "format" /\ isValid(date)) =>
    /\ \A text \in LiteralTexts :
         token = <<"'">> \o text \o <<"'">> => result = Returned(text, NoCalls)
    /\ token = QuotedLettersPattern =>
         /\ Returns
         /\ result.text =
              <<"y", "y", "y", "y", "-">>
                \o addLeadingZeros(date.month + 1, 2) \o <<"-">>
                \o addLeadingZeros(date.day, 2)
                \o <<"T", "H", "H", ":", "m", "m", ":", "s", "s", ".", "S", "S",
                     "S", "X", " ">>
                \o formatters_y(<<"y", "y", "y", "y">>, date).text
                \o <<"-", "M", "M", "-", "d", "d">>
    /\ token = QuotedQuotesPattern =>
         /\ Returns
         /\ result.text =
              <<"'">> \o formatters_h(<<"h">>, date).text
                \o <<" ", "o", "'", "c", "l", "o", "c", "k", "'">>
         /\ date.hours = 5 => result.text = FiveOClock

QuotedLettersUpperCased ==
  <<"Y", "Y", "Y", "Y", "-", "0", "4", "-", "0", "4", "T", "H", "H", ":",
    "m", "m", ":", "s", "s", ".", "S", "S", "S", "X", " ", "1", "9", "8",
    "6", "-", "M", "M", "-", "d", "d">>

QuotedLettersVerbatim ==
  <<"y", "y", "y", "y", "-", "0", "4", "-", "0", "4", "T", "H", "H", ":",
    "m", "m", ":", "s", "s", ".", "S", "S", "S", "X", " ", "1", "9", "8",
    "6", "-", "M", "M", "-", "d", "d">>

C26_AddLeadingZeros ==
  (called = "addLeadingZeros") =>
    LET number       == args[1]
        targetLength == args[2]
    IN  /\ Returns
        /\ AllDigits(result.text)
        /\ Len(result.text) = Max(targetLength, NumDigits(Abs(number)))
        /\ digitsValue(result.text) = Abs(number)
        /\ \A i \in 1..(Len(result.text) - NumDigits(Abs(number))) :
             result.text[i] = "0"

C26_Witness ==
  /\ called = "addLeadingZeros"
  /\ args = <<-1007, 3>>
  /\ result.text = <<"1", "0", "0", "7">>

(***************************************************************************)
(* C27: for every timezone offset in minutes, formatTimezone(offset,       *)
(* delimeter) returns a sign, two digits of hours, the delimeter and two   *)
(* digits of minutes; the sign is '-' exactly when offset > 0 and '+'      *)
(* otherwise (the offset 0 gives '+'), the hours are floor(|offset| / 60), *)
(* the minutes are |offset| mod 60, within 0..59, and the string decoded   *)
(* as sign * (hours * 60 + minutes) is -offset.                            *)
(***************************************************************************)
C27_FormatTimezone ==
  (called = "formatTimezone") =>
    LET offset    == args[1]
        delimeter == token
        text      == result.text
        hours     == digitsValue(SubSeq(text, 2, 3))
        minutes   == digitsValue(SubSeq(text, Len(text) - 1, Len(text)))
        sign      == IF text[1] = "-" THEN -1 ELSE 1
    IN  /\ Returns
        /\ Len(text) = 5 + Len(delimeter)
        /\ text[1] \in {"+", "-"}
        /\ text[1] = "-" <=> offset > 0
        /\ AllDigits(SubSeq(text, 2, 3))
        /\ SubSeq(text, 4, 3 + Len(delimeter)) = delimeter
        /\ AllDigits(SubSeq(text, Len(text) - 1, Len(text)))
        /\ hours = Abs(offset) \div 60
        /\ minutes = Abs(offset) % 60
        /\ minutes \in 0..59
        /\ sign * (hours * 60 + minutes) = 0 - offset

C27_Witness ==
  /\ called = "formatTimezone"
  /\ args = <<-330>>
  /\ token = <<":">>
  /\ result.text = <<"+", "0", "5", ":", "3", "0">>

(***************************************************************************)
(* C28: scanning terminates on every finite pattern, one with a quoted     *)
(* span that is not ended included (the span extends to the end of the     *)
(* pattern), and every character of the pattern is consumed exactly once,  *)
(* from left to right: the characters consumed are always the pattern up   *)
(* to the position reached, the position only moves forward, and every     *)
(* scan that was started ends with the whole pattern consumed.             *)
(***************************************************************************)
C28_ConsumedIsPrefix ==
  (called = "scan") =>
    /\ args[1] \in 1..(Len(token) + 1)
    /\ result.text = SubSeq(token, 1, args[1] - 1)
    /\ (result.status = "ok") => (result.text = token)

C28_LeftToRight ==
  (called = "scan" /\ called' = "scan" /\ args' # args) =>
    /\ args'[1] > args[1]
    /\ result'.text = result.text \o SubSeq(token, args[1], args'[1] - 1)

C28_ScanTerminates ==
  /\ []C28_ConsumedIsPrefix
  /\ [][C28_LeftToRight]_vars
  /\ (called = "scan") ~> (called = "scan" /\ result.status = "ok")

\* a span that is not ended, scanned to the end of the pattern
C28_Witness ==
  /\ called = "scan"
  /\ result.status = "ok"
  /\ token = <<"y", "'", "o", "'", "'">>
  /\ result.text = token
  /\ args = <<6>>

(***************************************************************************)
(* C29: only X, x, t and T read the original instant, which is             *)
(* options._originalDate when that is given and the date argument          *)
(* otherwise: X and x render its timezone offset and t and T its time      *)
(* value.  The output of every other directive is a function of the run    *)
(* and of the UTC fields of the date argument alone, so that two calls     *)
(* that differ only in options._originalDate give the same output.         *)
(***************************************************************************)
OriginalInstantLetters == {"X", "x", "t", "T"}

\* the date with its UTC fields only
UTCFields(d) == [d EXCEPT !.timezoneOffset = 0]

C29_OtherDirectivesIgnoreOriginalDate ==
  (called \in TableLetters \ OriginalInstantLetters) =>
    result = dispatch(called, token, UTCFields(date))

C29_OriginalInstantOnlyForZoneAndTimestamp ==
  LET offset == OriginalInstant.timezoneOffset
  IN  /\ C29_OtherDirectivesIgnoreOriginalDate
      /\ (called \in {"X", "x"} /\ Len(token) = 2 /\ offset # 0) =>
           /\ Returns
           /\ result.text = formatTimezone(offset, <<>>)
      /\ (called \in {"t", "T"} /\ EpochInstant) =>
           /\ Returns
           /\ (called = "t") =>
                digitsValue(result.text) = getTime(OriginalInstant) \div 1000
           /\ (called = "T") =>
                digitsValue(result.text) = getTime(OriginalInstant)

(***************************************************************************)
(* C30: for every millisecond 0..999 the entries 'S', 'SS' and 'SSS' of    *)
(* the earlier table (floor(ms / 100), floor(ms / 10) padded to 2 digits,  *)
(* ms padded to 3 digits) and formatters.S with the run lengths 1, 2 and 3 *)
(* render the same text.                                                   *)
(***************************************************************************)
C30_LegacyAgreesWithRunLength ==
  /\ (called = "legacy") => result = formatters_S(token, date)
  /\ (called = "S" /\ token \in LegacyKeys) => result = legacyFormatters(token, date)

====
